---- MODULE Spec2Model ----
(***************************************************************************)
(* Model of the contact-reveal widget, src/src/components/ContactForm.tsx. *)
(*                                                                         *)
(* The React component's useState cells are the variables; every event     *)
(* handler is one action that contains the state updates of the handler,   *)
(* the re-render, and the effect cleanups/bodies React runs after the      *)
(* commit.  The browser and the reCAPTCHA provider are the environment:    *)
(* script load events, the provider's ready callback and the provider's    *)
(* success callback are delivered at moments the component does not        *)
(* control, also after the modal was closed.                               *)
(*                                                                         *)
(* Text values are sequences of one-character strings so that trim() and   *)
(* the email regular expression are computed on the characters.            *)
(***************************************************************************)
EXTENDS Integers, Sequences, FiniteSets, TLC

\* Bound: number of injected script elements that are alive (attached to the
\* document or with a load outcome still outstanding) at the same time.
MaxScripts == 2

\* Bound: number of provider callbacks (ready / success) outstanding at once.
MaxPending == 2

VARIABLES
    mounted,            \* useState(false), line 29
    showForm,           \* line 21
    showContact,        \* line 22
    userName,           \* line 23
    userEmail,          \* line 24
    userCompany,        \* line 25
    error,              \* line 26
    captchaLoaded,      \* line 27
    captchaVerified,    \* line 28
    attached,           \* script elements that are children of document.body
    loading,            \* script elements whose load/error event is outstanding
    effectScript,       \* script captured by the pending cleanup of the load effect (0: none)
    grecaptchaDefined,  \* window.grecaptcha exists (api.js has executed)
    readyPending,       \* callbacks registered with grecaptcha.ready, not yet run
    widgetRendered,     \* a challenge widget sits in #recaptcha-container
    verifyPending,      \* rendered widgets whose success callback may still fire
    cycleRenders        \* grecaptcha.render calls since the modal was opened

vars == <<mounted, showForm, showContact, userName, userEmail, userCompany,
          error, captchaLoaded, captchaVerified, attached, loading,
          effectScript, grecaptchaDefined, readyPending, widgetRendered,
          verifyPending, cycleRenders>>

draftVars == <<userName, userEmail, userCompany>>
domVars == <<attached, loading, effectScript>>
providerVars == <<grecaptchaDefined, readyPending, widgetRendered, verifyPending, cycleRenders>>

----------------------------------------------------------------------------
(* Text helpers *)

\* Characters matched by \s and removed by String.prototype.trim
WhiteSpace == {" ", "\t"}

RECURSIVE TrimStart(_)
TrimStart(s) ==
    IF s # <<>> /\ Head(s) \in WhiteSpace THEN TrimStart(Tail(s)) ELSE s

RECURSIVE TrimEnd(_)
TrimEnd(s) ==
    IF s # <<>> /\ s[Len(s)] \in WhiteSpace
    THEN TrimEnd(SubSeq(s, 1, Len(s) - 1))
    ELSE s

Trim(s) == TrimEnd(TrimStart(s))

\* Variant of emailRegex without the "\\.[^\\s@]+" part
emailRegexNoDot == <<"plus", "@", "plus">>

\* /^[^\s@]+@[^\s@]+\.[^\s@]+$/ as a list of pattern items
emailRegex == <<"plus", "@", "plus", ".", "plus">>

\* the character class [^\s@]
InClass(c) == c \notin (WhiteSpace \cup {"@"})

\* Backtracking match of emailRegex from item p against s from position i,
\* anchored at the end of s.
RECURSIVE RegexMatch(_, _, _)
RegexMatch(s, i, p) ==
    IF p > Len(emailRegex) THEN i > Len(s)
    ELSE IF emailRegex[p] = "plus"
         THEN \E j \in (i + 1)..(Len(s) + 1) :
                  /\ \A k \in i..(j - 1) : InClass(s[k])
                  /\ RegexMatch(s, j, p + 1)
         ELSE /\ i <= Len(s)
              /\ s[i] = emailRegex[p]
              /\ RegexMatch(s, i + 1, p + 1)

EmailRegexTest(e) == RegexMatch(e, 1, 1)

----------------------------------------------------------------------------
(* Messages *)

\* line 77
NameErrorMsg == "Please enter your name"
\* line 84
EmailErrorMsg == "Please enter a valid email address"
\* Variant of CaptchaErrorMsg without the provider's name
CaptchaErrorMsgShort == "Please complete the verification"
\* line 90
CaptchaErrorMsg == "Please complete the reCAPTCHA verification"

----------------------------------------------------------------------------
(* Values typed into the inputs *)

NameInputs ==
    { <<>>, <<" ">>, <<"a">>, <<" ", "a", " ">>, <<"a", "b">>, <<"\t", "a", "b", " ">> }

EmailInputs ==
    { <<>>,
      <<"a">>,
      <<"a", "@", "b">>,
      <<"a", "@", ".", "c">>,
      <<"a", "@", "b", ".">>,
      <<"a", "@", "@", "b", ".", "c">>,
      <<"a", " ", "@", "b", ".", "c">>,
      <<"a", "@", "b", ".", "c">>,
      <<"a", ".", "d", "@", "b", ".", "c", ".", "e">> }

CompanyInputs == { <<>>, <<"x">> }

----------------------------------------------------------------------------
(* Derived presentation state, lines 125-128 *)

Mode ==
    IF ~showForm THEN "Closed"
    ELSE IF ~showContact THEN "Collecting"
    ELSE "Revealed"

----------------------------------------------------------------------------
(* Validation of handleSubmit, lines 75-92 *)

\* Variant of NameInvalid that measures the untrimmed value
NameInvalidNoTrim(n) == n = <<>> \/ Len(n) < 2

\* line 76: !userName || userName.trim().length < 2
NameInvalid(n) == n = <<>> \/ Len(Trim(n)) < 2

\* Variant of EmailInvalid with the regex test not negated
EmailInvalidTestNotNegated(e) == e = <<>> \/ EmailRegexTest(e)

\* line 83: !userEmail || !emailRegex.test(userEmail)
EmailInvalid(e) == e = <<>> \/ ~EmailRegexTest(e)

\* Variant of SubmitError without the verification check of lines 89-92
SubmitErrorNoCaptchaCheck(n, e, v) ==
    IF NameInvalid(n) THEN NameErrorMsg
    ELSE IF EmailInvalid(e) THEN EmailErrorMsg
    ELSE ""

\* Variant of SubmitError with the verification test negated
SubmitErrorCaptchaNegated(n, e, v) ==
    IF NameInvalid(n) THEN NameErrorMsg
    ELSE IF EmailInvalid(e) THEN EmailErrorMsg
    ELSE IF v THEN CaptchaErrorMsg
    ELSE ""

\* The message left in `error` when handleSubmit returns ("" on success):
\* setError("") followed by the first failing check's setError.
SubmitError(n, e, v) ==
    IF NameInvalid(n) THEN NameErrorMsg
    ELSE IF EmailInvalid(e) THEN EmailErrorMsg
    ELSE IF ~v THEN CaptchaErrorMsg
    ELSE ""

----------------------------------------------------------------------------
(* Effects run by React after a commit *)

ScriptIds == 1..MaxScripts

\* Variant of LoadEffect whose body returns no cleanup (lines 48-50 missing)
LoadEffectNoCleanup(sf, cl, ld) ==
    IF <<sf, cl>> = <<showForm, captchaLoaded>>
    THEN /\ attached' = attached
         /\ loading' = ld
         /\ effectScript' = effectScript
    ELSE LET free == ScriptIds \ (attached \cup ld)
         IN  IF sf /\ ~cl
             THEN /\ free # {}
                  /\ LET script == CHOOSE i \in free : \A j \in free : i <= j
                     IN  /\ attached' = attached \cup {script}
                         /\ loading' = ld \cup {script}
                         /\ effectScript' = script
             ELSE /\ attached' = attached
                  /\ loading' = ld
                  /\ effectScript' = 0

\* Variant of LoadEffect with the dependency list [showForm]
LoadEffectDepsShowFormOnly(sf, cl, ld) ==
    IF sf = showForm
    THEN /\ attached' = attached
         /\ loading' = ld
         /\ effectScript' = effectScript
    ELSE LET afterCleanup == attached \ {effectScript}
             free == ScriptIds \ (afterCleanup \cup ld)
         IN  IF sf /\ ~cl
             THEN /\ free # {}
                  /\ LET script == CHOOSE i \in free : \A j \in free : i <= j
                     IN  /\ attached' = afterCleanup \cup {script}
                         /\ loading' = ld \cup {script}
                         /\ effectScript' = script
             ELSE /\ attached' = afterCleanup
                  /\ loading' = ld
                  /\ effectScript' = 0

\* Variant of LoadEffect whose cleanup leaves a script that is still loading
LoadEffectCleanupSkipsPending(sf, cl, ld) ==
    IF <<sf, cl>> = <<showForm, captchaLoaded>>
    THEN /\ attached' = attached
         /\ loading' = ld
         /\ effectScript' = effectScript
    ELSE LET afterCleanup == IF effectScript \in ld THEN attached
                             ELSE attached \ {effectScript}
             free == ScriptIds \ (afterCleanup \cup ld)
         IN  IF sf /\ ~cl
             THEN /\ free # {}
                  /\ LET script == CHOOSE i \in free : \A j \in free : i <= j
                     IN  /\ attached' = afterCleanup \cup {script}
                         /\ loading' = ld \cup {script}
                         /\ effectScript' = script
             ELSE /\ attached' = afterCleanup
                  /\ loading' = ld
                  /\ effectScript' = 0

\* The script-load effect, lines 35-52, dependencies [showForm, captchaLoaded].
\* sf, cl: the committed values; ld: the scripts still loading after the event.
\* When a dependency changed the previous run's cleanup (line 49) detaches the
\* script it captured, then the body runs and, if showForm && !captchaLoaded,
\* appends a new script element.
LoadEffect(sf, cl, ld) ==
    IF <<sf, cl>> = <<showForm, captchaLoaded>>
    THEN /\ attached' = attached
         /\ loading' = ld
         /\ effectScript' = effectScript
    ELSE LET afterCleanup == attached \ {effectScript}
             free == ScriptIds \ (afterCleanup \cup ld)
         IN  IF sf /\ ~cl
             THEN /\ free # {}
                  /\ LET script == CHOOSE i \in free : \A j \in free : i <= j
                     IN  /\ attached' = afterCleanup \cup {script}
                         /\ loading' = ld \cup {script}
                         /\ effectScript' = script
             ELSE /\ attached' = afterCleanup
                  /\ loading' = ld
                  /\ effectScript' = 0

\* The render effect, lines 54-64, dependencies [captchaLoaded, showForm]:
\* registers a callback with grecaptcha.ready when both are true
\* (window.grecaptcha?. skips the call when the global is missing).
RenderEffect(sf, cl, gd) ==
    IF <<sf, cl>> # <<showForm, captchaLoaded>> /\ cl /\ sf /\ gd
    THEN /\ readyPending < MaxPending
         /\ readyPending' = readyPending + 1
    ELSE readyPending' = readyPending

----------------------------------------------------------------------------
(* What the component renders, lines 112-253 *)

\* lines 217-220
ContactEmail == "mailto:anudeepsamaiya@gmail.com"
\* line 227
ResumeLink == "https://docs.google.com/document/d/1ouYM4MhTTWZZ91OfkOz8mHzUa5JsjULgrzNiS3IXioo/edit?tab=t.0"

\* The elements of the returned tree: nothing before the mount (lines
\* 112-114), the trigger button always, and inside the modal either the form
\* (lines 129-206) or the contact details (lines 208-247).
View ==
    IF ~mounted THEN {}
    ELSE {"trigger"} \cup
         (IF ~showForm THEN {}
          ELSE IF ~showContact THEN {"form", "recaptcha-container"}
          ELSE {ContactEmail, ResumeLink})

----------------------------------------------------------------------------
(* handleSubmit as a function of the state its closure reads *)

UiState ==
    [showForm |-> showForm, showContact |-> showContact,
     userName |-> userName, userEmail |-> userEmail, userCompany |-> userCompany,
     error |-> error, captchaLoaded |-> captchaLoaded,
     captchaVerified |-> captchaVerified]

\* Variant of HandleSubmit that flips showContact instead of setting it
HandleSubmitTogglesContact(s) ==
    LET err == SubmitError(s.userName, s.userEmail, s.captchaVerified)
    IN  [s EXCEPT !.error = err,
                  !.showContact = IF err = "" THEN ~s.showContact ELSE s.showContact]

\* Variant of HandleSubmit that treats the company as a required field
HandleSubmitRequiresCompany(s) ==
    LET err == IF s.userCompany = <<>> THEN NameErrorMsg
               ELSE SubmitError(s.userName, s.userEmail, s.captchaVerified)
    IN  [s EXCEPT !.error = err,
                  !.showContact = IF err = "" THEN TRUE ELSE s.showContact]

\* lines 71-99: setError(""), the three checks, setShowContact(true)
HandleSubmit(s) ==
    LET err == SubmitError(s.userName, s.userEmail, s.captchaVerified)
    IN  [s EXCEPT !.error = err,
                  !.showContact = IF err = "" THEN TRUE ELSE s.showContact]

----------------------------------------------------------------------------
(* Initial state: the useState initial values, nothing injected *)

Init ==
    /\ mounted = FALSE
    /\ showForm = FALSE
    /\ showContact = FALSE
    /\ userName = <<>>
    /\ userEmail = <<>>
    /\ userCompany = <<>>
    /\ error = ""
    /\ captchaLoaded = FALSE
    /\ captchaVerified = FALSE
    /\ attached = {}
    /\ loading = {}
    /\ effectScript = 0
    /\ grecaptchaDefined = FALSE
    /\ readyPending = 0
    /\ widgetRendered = FALSE
    /\ verifyPending = 0
    /\ cycleRenders = 0

----------------------------------------------------------------------------
(* Actions *)

\* lines 31-33: the mount effect; until then the component renders null
\* (lines 112-114) and the other two effects find showForm = false.
Mount ==
    /\ ~mounted
    /\ mounted' = TRUE
    /\ UNCHANGED <<showForm, showContact, draftVars, error, captchaLoaded,
                   captchaVerified, domVars, providerVars>>

\* Variant of Open for a trigger button rendered before the mount effect ran
OpenWithoutMountGuard ==
    /\ showForm' = TRUE
    /\ LoadEffect(TRUE, captchaLoaded, loading)
    /\ RenderEffect(TRUE, captchaLoaded, grecaptchaDefined)
    /\ UNCHANGED <<mounted, showContact, draftVars, error, captchaLoaded,
                   captchaVerified, grecaptchaDefined, widgetRendered,
                   verifyPending, cycleRenders>>

\* lines 118-119: the trigger button, onClick={() => setShowForm(true)}
Open ==
    /\ mounted
    /\ showForm' = TRUE
    /\ LoadEffect(TRUE, captchaLoaded, loading)
    /\ RenderEffect(TRUE, captchaLoaded, grecaptchaDefined)
    /\ UNCHANGED <<mounted, showContact, draftVars, error, captchaLoaded,
                   captchaVerified, grecaptchaDefined, widgetRendered,
                   verifyPending, cycleRenders>>

\* Variant of SetUserName for a name input that is rendered in every mode
SetUserNameAnyMode(v) ==
    /\ mounted
    /\ userName' = v
    /\ UNCHANGED <<mounted, showForm, showContact, userEmail, userCompany, error,
                   captchaLoaded, captchaVerified, domVars, providerVars>>

\* line 145: onChange of the name input (rendered only in Collecting)
SetUserName(v) ==
    /\ mounted /\ showForm /\ ~showContact
    /\ userName' = v
    /\ UNCHANGED <<mounted, showForm, showContact, userEmail, userCompany, error,
                   captchaLoaded, captchaVerified, domVars, providerVars>>

\* line 159: onChange of the email input
SetUserEmail(v) ==
    /\ mounted /\ showForm /\ ~showContact
    /\ userEmail' = v
    /\ UNCHANGED <<mounted, showForm, showContact, userName, userCompany, error,
                   captchaLoaded, captchaVerified, domVars, providerVars>>

\* line 173: onChange of the company input
SetUserCompany(v) ==
    /\ mounted /\ showForm /\ ~showContact
    /\ userCompany' = v
    /\ UNCHANGED <<mounted, showForm, showContact, userName, userEmail, error,
                   captchaLoaded, captchaVerified, domVars, providerVars>>

\* Variant of Submit that resets the verification when a check fails
SubmitFailureResetsVerification ==
    /\ mounted /\ showForm /\ ~showContact
    /\ LET err == SubmitError(userName, userEmail, captchaVerified)
       IN  /\ error' = err
           /\ showContact' = (err = "")
           /\ widgetRendered' = (widgetRendered /\ err # "")
           /\ captchaVerified' = (captchaVerified /\ err = "")
    /\ UNCHANGED <<mounted, showForm, draftVars, captchaLoaded,
                   domVars, grecaptchaDefined, readyPending, verifyPending,
                   cycleRenders>>

\* Variant of Submit that empties the draft after a successful submit
SubmitSuccessClearsDraft ==
    /\ mounted /\ showForm /\ ~showContact
    /\ LET err == SubmitError(userName, userEmail, captchaVerified)
       IN  /\ error' = err
           /\ showContact' = (err = "")
           /\ widgetRendered' = (widgetRendered /\ err # "")
           /\ userName' = IF err = "" THEN <<>> ELSE userName
           /\ userEmail' = IF err = "" THEN <<>> ELSE userEmail
           /\ userCompany' = IF err = "" THEN <<>> ELSE userCompany
    /\ UNCHANGED <<mounted, showForm, captchaLoaded, captchaVerified,
                   domVars, grecaptchaDefined, readyPending, verifyPending,
                   cycleRenders>>

\* Variant of Submit that consumes the verification on success
SubmitSuccessResetsVerification ==
    /\ mounted /\ showForm /\ ~showContact
    /\ LET err == SubmitError(userName, userEmail, captchaVerified)
       IN  /\ error' = err
           /\ showContact' = (err = "")
           /\ widgetRendered' = (widgetRendered /\ err # "")
           /\ captchaVerified' = (captchaVerified /\ err # "")
    /\ UNCHANGED <<mounted, showForm, draftVars, captchaLoaded,
                   domVars, grecaptchaDefined, readyPending, verifyPending,
                   cycleRenders>>

\* Variant of Submit that, after setError(""), returns when the message it
\* read at render time was non-empty
SubmitReturnsWhileErrorShown ==
    /\ mounted /\ showForm /\ ~showContact
    /\ LET err == IF error # "" THEN ""
                  ELSE SubmitError(userName, userEmail, captchaVerified)
           done == error = "" /\ err = ""
       IN  /\ error' = err
           /\ showContact' = done
           /\ widgetRendered' = (widgetRendered /\ ~done)
    /\ UNCHANGED <<mounted, showForm, draftVars, captchaLoaded, captchaVerified,
                   domVars, grecaptchaDefined, readyPending, verifyPending,
                   cycleRenders>>

\* lines 71-99: handleSubmit, the form's onSubmit (the form exists only in
\* Collecting).  On success the form, and with it #recaptcha-container, is
\* replaced by the contact details.
Submit ==
    /\ mounted /\ showForm /\ ~showContact
    /\ LET err == SubmitError(userName, userEmail, captchaVerified)
       IN  /\ error' = err
           /\ showContact' = (err = "")
           /\ widgetRendered' = (widgetRendered /\ err # "")
    /\ UNCHANGED <<mounted, showForm, draftVars, captchaLoaded, captchaVerified,
                   domVars, grecaptchaDefined, readyPending, verifyPending,
                   cycleRenders>>

\* Variant of Close without setCaptchaVerified(false) (line 108 missing)
CloseKeepsVerified ==
    /\ mounted /\ showForm
    /\ showForm' = FALSE
    /\ showContact' = FALSE
    /\ userName' = <<>>
    /\ userEmail' = <<>>
    /\ userCompany' = <<>>
    /\ error' = ""
    /\ captchaLoaded' = FALSE
    /\ LoadEffect(FALSE, FALSE, loading)
    /\ RenderEffect(FALSE, FALSE, grecaptchaDefined)
    /\ widgetRendered' = FALSE
    /\ cycleRenders' = 0
    /\ UNCHANGED <<mounted, grecaptchaDefined, verifyPending, captchaVerified>>

\* Variant of Close without setError("") (line 107 missing)
CloseKeepsError ==
    /\ mounted /\ showForm
    /\ showForm' = FALSE
    /\ showContact' = FALSE
    /\ userName' = <<>>
    /\ userEmail' = <<>>
    /\ userCompany' = <<>>
    /\ captchaVerified' = FALSE
    /\ captchaLoaded' = FALSE
    /\ LoadEffect(FALSE, FALSE, loading)
    /\ RenderEffect(FALSE, FALSE, grecaptchaDefined)
    /\ widgetRendered' = FALSE
    /\ cycleRenders' = 0
    /\ UNCHANGED <<mounted, grecaptchaDefined, verifyPending, error>>

\* Variant of Close without setShowContact(false) (line 103 missing)
CloseKeepsContact ==
    /\ mounted /\ showForm
    /\ showForm' = FALSE
    /\ userName' = <<>>
    /\ userEmail' = <<>>
    /\ userCompany' = <<>>
    /\ error' = ""
    /\ captchaVerified' = FALSE
    /\ captchaLoaded' = FALSE
    /\ LoadEffect(FALSE, FALSE, loading)
    /\ RenderEffect(FALSE, FALSE, grecaptchaDefined)
    /\ widgetRendered' = FALSE
    /\ cycleRenders' = 0
    /\ UNCHANGED <<mounted, grecaptchaDefined, verifyPending, showContact>>

\* lines 101-110: handleClose (Cancel in the form, Close in the reveal view),
\* followed by the cleanup of the load effect.
Close ==
    /\ mounted /\ showForm
    /\ showForm' = FALSE
    /\ showContact' = FALSE
    /\ userName' = <<>>
    /\ userEmail' = <<>>
    /\ userCompany' = <<>>
    /\ error' = ""
    /\ captchaVerified' = FALSE
    /\ captchaLoaded' = FALSE
    /\ LoadEffect(FALSE, FALSE, loading)
    /\ RenderEffect(FALSE, FALSE, grecaptchaDefined)
    /\ widgetRendered' = FALSE
    /\ cycleRenders' = 0
    /\ UNCHANGED <<mounted, grecaptchaDefined, verifyPending>>

\* Variant of ScriptLoad whose handler also calls setCaptchaVerified(true)
ScriptLoadSetsVerified(script) ==
    /\ script \in loading
    /\ grecaptchaDefined' = TRUE
    /\ captchaLoaded' = TRUE
    /\ captchaVerified' = TRUE
    /\ LoadEffect(showForm, TRUE, loading \ {script})
    /\ RenderEffect(showForm, TRUE, TRUE)
    /\ UNCHANGED <<mounted, showForm, showContact, draftVars, error,
                   widgetRendered, verifyPending, cycleRenders>>

\* lines 44-46: script.onload of an injected element.  The handler stays on
\* the element after the cleanup detached it, and the browser still delivers
\* the load event of a fetch that was under way.
ScriptLoad(script) ==
    /\ script \in loading
    /\ grecaptchaDefined' = TRUE
    /\ captchaLoaded' = TRUE
    /\ LoadEffect(showForm, TRUE, loading \ {script})
    /\ RenderEffect(showForm, TRUE, TRUE)
    /\ UNCHANGED <<mounted, showForm, showContact, draftVars, error,
                   captchaVerified, widgetRendered, verifyPending, cycleRenders>>

\* lines 38-46: the fetch of an injected element fails; no onerror handler
\* is installed, so nothing in the component reacts.
ScriptError(script) ==
    /\ script \in loading
    /\ loading' = loading \ {script}
    /\ UNCHANGED <<mounted, showForm, showContact, draftVars, error,
                   captchaLoaded, captchaVerified, attached, effectScript,
                   providerVars>>

\* lines 57-62: the provider runs a callback registered with grecaptcha.ready;
\* the callback calls grecaptcha.render("recaptcha-container", ...).  The
\* provider mounts a widget when the container exists and is empty, and
\* throws otherwise.
ReadyCallback ==
    /\ readyPending > 0
    /\ readyPending' = readyPending - 1
    /\ cycleRenders' = IF showForm THEN cycleRenders + 1 ELSE cycleRenders
    /\ IF Mode = "Collecting" /\ ~widgetRendered
       THEN /\ verifyPending < MaxPending
            /\ widgetRendered' = TRUE
            /\ verifyPending' = verifyPending + 1
       ELSE UNCHANGED <<widgetRendered, verifyPending>>
    /\ UNCHANGED <<mounted, showForm, showContact, draftVars, error,
                   captchaLoaded, captchaVerified, domVars, grecaptchaDefined>>

\* Variant of HandleCaptchaVerify without setError("") (line 68 missing)
HandleCaptchaVerifyKeepsError ==
    /\ verifyPending > 0
    /\ verifyPending' = verifyPending - 1
    /\ captchaVerified' = TRUE
    /\ UNCHANGED <<mounted, showForm, showContact, draftVars, captchaLoaded,
                   domVars, grecaptchaDefined, readyPending, widgetRendered,
                   cycleRenders, error>>

\* lines 66-69: handleCaptchaVerify, the success callback given to render
HandleCaptchaVerify ==
    /\ verifyPending > 0
    /\ verifyPending' = verifyPending - 1
    /\ captchaVerified' = TRUE
    /\ error' = ""
    /\ UNCHANGED <<mounted, showForm, showContact, draftVars, captchaLoaded,
                   domVars, grecaptchaDefined, readyPending, widgetRendered,
                   cycleRenders>>

Next ==
    \/ Mount
    \/ Open
    \/ \E v \in NameInputs : SetUserName(v)
    \/ \E v \in EmailInputs : SetUserEmail(v)
    \/ \E v \in CompanyInputs : SetUserCompany(v)
    \/ Submit
    \/ Close
    \/ \E script \in ScriptIds : ScriptLoad(script)
    \/ \E script \in ScriptIds : ScriptError(script)
    \/ ReadyCallback
    \/ HandleCaptchaVerify

Spec == Init /\ [][Next]_vars

TypeOK ==
    /\ mounted \in BOOLEAN /\ showForm \in BOOLEAN /\ showContact \in BOOLEAN
    /\ userName \in NameInputs /\ userEmail \in EmailInputs
    /\ userCompany \in CompanyInputs
    /\ error \in {"", NameErrorMsg, EmailErrorMsg, CaptchaErrorMsg}
    /\ captchaLoaded \in BOOLEAN /\ captchaVerified \in BOOLEAN
    /\ attached \subseteq ScriptIds /\ loading \subseteq ScriptIds
    /\ effectScript \in 0..MaxScripts
    /\ grecaptchaDefined \in BOOLEAN
    /\ readyPending \in 0..MaxPending
    /\ widgetRendered \in BOOLEAN
    /\ verifyPending \in 0..MaxPending
    /\ cycleRenders \in 0..(MaxPending + 1)

----------------------------------------------------------------------------
(* Vocabulary of the properties *)

AtPositions(e) == { i \in 1..Len(e) : e[i] = "@" }

\* local-part@domain with a dot inside the domain: no whitespace, exactly one
\* "@", a non-empty local part, and a "." in the domain that has at least one
\* character on each side.
HasAddressShape(e) ==
    /\ \A i \in 1..Len(e) : e[i] \notin WhiteSpace
    /\ Cardinality(AtPositions(e)) = 1
    /\ LET a == CHOOSE i \in AtPositions(e) : TRUE
       IN  /\ a > 1
           /\ \E d \in (a + 2)..(Len(e) - 1) : e[d] = "."

ValidName(n) == Len(Trim(n)) >= 2

uiVars == <<showForm, showContact, userName, userEmail, userCompany, error,
            captchaLoaded, captchaVerified>>

----------------------------------------------------------------------------
(* Properties *)

\* C1: the only step that sets showContact (enters Revealed) is a submit
\* taken in Collecting while captchaVerified is true at that moment.
C1_RevealOnlyByVerifiedSubmit ==
    [][(~showContact /\ showContact')
         => (Submit /\ Mode = "Collecting" /\ captchaVerified)]_vars

C1_Witness == Mode = "Revealed" /\ captchaVerified /\ error = ""

\* C2: every Closed -> Collecting step starts with an empty draft,
\* captchaLoaded = false and captchaVerified = false.
C2_OpenStartsFresh ==
    [][(Mode = "Closed" /\ Mode' = "Collecting")
         => /\ userName' = <<>> /\ userEmail' = <<>> /\ userCompany' = <<>>
            /\ ~captchaLoaded'
            /\ ~captchaVerified']_vars

\* C3: the success callback firing while the widget is Closed changes no
\* widget state variable.
C3_VerifyWhileClosedIsNoOp ==
    [][(HandleCaptchaVerify /\ Mode = "Closed") => UNCHANGED uiVars]_vars

\* C4: the script load callback firing while the widget is Closed leaves
\* captchaLoaded false and the mode Closed.
C4_LoadWhileClosedIsNoOp ==
    [][((\E script \in ScriptIds : ScriptLoad(script)) /\ Mode = "Closed")
         => (~captchaLoaded' /\ Mode' = "Closed")]_vars

\* C5: every call of grecaptcha.render happens while captchaLoaded is true
\* and the mode is Collecting.
C5_RenderOnlyWhenLoadedAndCollecting ==
    [][ReadyCallback => (captchaLoaded /\ Mode = "Collecting")]_vars

\* C6: between an open and the next close grecaptcha.render is called at
\* most once.
C6_RenderAtMostOncePerCycle == cycleRenders <= 1

\* C7: a submit whose trimmed name has fewer than 2 characters sets the name
\* error and stays in Collecting, whatever the email and captchaVerified are.
C7_ShortNameGivesNameError ==
    [][(Submit /\ Len(Trim(userName)) < 2)
         => (error' = NameErrorMsg /\ Mode' = "Collecting")]_vars

C7_Witness ==
    /\ Mode = "Collecting"
    /\ error = NameErrorMsg
    /\ userName # <<>> /\ Len(userName) >= 2 /\ Len(Trim(userName)) < 2
    /\ ~HasAddressShape(userEmail)
    /\ ~captchaVerified

\* C8: a submit with a valid name and an email that is empty or lacks the
\* address shape sets the email error and stays in Collecting, whatever
\* captchaVerified is.
C8_BadEmailGivesEmailError ==
    [][(Submit /\ ValidName(userName)
          /\ (userEmail = <<>> \/ ~HasAddressShape(userEmail)))
         => (error' = EmailErrorMsg /\ Mode' = "Collecting")]_vars

C8_Witness ==
    /\ Mode = "Collecting"
    /\ error = EmailErrorMsg
    /\ ValidName(userName)
    /\ userEmail # <<>> /\ ~HasAddressShape(userEmail)
    /\ AtPositions(userEmail) # {}
    /\ ~captchaVerified

\* C9: a submit with a valid name and a valid email while captchaVerified is
\* false sets the verification error, stays in Collecting and does not
\* reveal the contact details.
C9_UnverifiedGivesVerificationError ==
    [][(Submit /\ ValidName(userName) /\ HasAddressShape(userEmail)
          /\ ~captchaVerified)
         => (error' = CaptchaErrorMsg /\ Mode' = "Collecting" /\ ~showContact')]_vars

C9_Witness ==
    /\ Mode = "Collecting"
    /\ error = CaptchaErrorMsg
    /\ ValidName(userName) /\ HasAddressShape(userEmail)
    /\ ~captchaVerified

\* C10 as stated: the message set when the verification check fails is
\* exactly "Please complete the verification".
C10_MessageAsStated ==
    [][(Submit /\ ~NameInvalid(userName) /\ ~EmailInvalid(userEmail)
          /\ ~captchaVerified)
         => error' = "Please complete the verification"]_vars

\* C10 amended: the message set when the verification check fails is exactly
\* "Please complete the reCAPTCHA verification".
C10_MessageNamesProvider ==
    [][(Submit /\ ~NameInvalid(userName) /\ ~EmailInvalid(userEmail)
          /\ ~captchaVerified)
         => error' = "Please complete the reCAPTCHA verification"]_vars

C10_Witness == error = "Please complete the reCAPTCHA verification"

\* C11: a submit in Collecting with a valid name, a matching email and
\* captchaVerified = true enters Revealed, and the fixed email address and
\* resume link are rendered in place of the form.
C11_ValidVerifiedSubmitReveals ==
    [][(Submit /\ ValidName(userName) /\ HasAddressShape(userEmail)
          /\ captchaVerified)
         => /\ Mode' = "Revealed"
            /\ {ContactEmail, ResumeLink} \subseteq View'
            /\ "form" \notin View']_vars

C11_Witness ==
    /\ Mode = "Revealed"
    /\ {ContactEmail, ResumeLink} \subseteq View
    /\ ValidName(userName) /\ HasAddressShape(userEmail)

\* C12: the close action, from Collecting or Revealed, leaves the mode
\* Closed, the draft and the error empty, captchaLoaded and captchaVerified
\* false.
C12_CloseResetsEverything ==
    [][Close
         => /\ Mode' = "Closed"
            /\ userName' = <<>> /\ userEmail' = <<>> /\ userCompany' = <<>>
            /\ error' = ""
            /\ ~captchaLoaded'
            /\ ~captchaVerified']_vars

C12_Witness ==
    /\ Mode = "Closed"
    /\ verifyPending > 0
    /\ ~captchaLoaded /\ ~captchaVerified
    /\ userName = <<>> /\ userEmail = <<>> /\ userCompany = <<>> /\ error = ""

\* C13: in every state in which the mode is Closed no injected script
\* element is attached to the document.
C13_NoScriptAttachedWhileClosed == (Mode = "Closed") => (attached = {})

C13_Witness == Mode = "Closed" /\ loading # {} /\ attached = {}

\* C14: a second run of handleSubmit right after a successful one leaves the
\* state the first one produced (Revealed, empty error, same draft and
\* verification state).
C14_SubmitIdempotentOnSuccess ==
    [][(Submit /\ ValidName(userName) /\ HasAddressShape(userEmail)
          /\ captchaVerified)
         => /\ UiState' = HandleSubmit(UiState)
            /\ HandleSubmit(UiState') = UiState'
            /\ Mode' = "Revealed"
            /\ error' = ""]_vars

C14_Witness ==
    /\ Mode = "Revealed"
    /\ HandleSubmit(UiState) = UiState
    /\ captchaVerified /\ error = ""

\* C15: while mounted is false nothing is rendered and the only step is the
\* mount effect, which changes nothing but the flag; the flag never returns
\* to false.
C15_NothingBeforeMount ==
    [][/\ (~mounted => (View = {} /\ mounted'
                         /\ UNCHANGED <<uiVars, domVars, providerVars>>))
       /\ (mounted => mounted')]_vars

C15_Witness == mounted /\ attached # {} /\ View # {}

\* C16: a submit that fails a validation changes only the error message; no
\* script is inserted and no provider call is made.
C16_FailedSubmitChangesOnlyError ==
    [][(Submit /\ error' # "")
         => UNCHANGED <<mounted, showForm, showContact, draftVars, captchaLoaded,
                        captchaVerified, domVars, providerVars>>]_vars

C16_Witness ==
    /\ Mode = "Collecting"
    /\ error = EmailErrorMsg
    /\ captchaVerified /\ captchaLoaded /\ widgetRendered

\* C17: a submit that passes all validations flips the mode to Revealed and
\* keeps name, email, company, captchaLoaded and captchaVerified; no script
\* is inserted and no provider call is made with the draft.
C17_SuccessfulSubmitKeepsDraft ==
    [][(Submit /\ SubmitError(userName, userEmail, captchaVerified) = "")
         => /\ Mode = "Collecting" /\ Mode' = "Revealed"
            /\ UNCHANGED <<mounted, showForm, draftVars, captchaLoaded,
                           captchaVerified, domVars, grecaptchaDefined,
                           readyPending, verifyPending, cycleRenders>>]_vars

C17_Witness ==
    /\ Mode = "Revealed"
    /\ userName # <<>> /\ userEmail # <<>> /\ userCompany # <<>>
    /\ captchaLoaded /\ captchaVerified

\* C18: captchaVerified turns true only by the success callback and turns
\* false only by the close action.
C18_VerifiedFlipsOnlyByCallbackAndClose ==
    [][/\ ((~captchaVerified /\ captchaVerified') => HandleCaptchaVerify)
       /\ ((captchaVerified /\ ~captchaVerified') => Close)]_vars

C18_Witness ==
    /\ captchaVerified
    /\ Mode = "Collecting"
    /\ error = NameErrorMsg

\* C19: the success callback invoked in Collecting sets captchaVerified,
\* empties the error and leaves the mode, the draft and captchaLoaded alone.
C19_VerifyInCollecting ==
    [][(HandleCaptchaVerify /\ Mode = "Collecting")
         => /\ captchaVerified'
            /\ error' = ""
            /\ UNCHANGED <<showForm, showContact, draftVars, captchaLoaded>>]_vars

C19_Witness ==
    /\ Mode = "Collecting"
    /\ captchaVerified /\ error = ""
    /\ widgetRendered /\ verifyPending = 0
    /\ NameInvalid(userName)

\* C20 as stated: the injected script element is detached once its load
\* finishes, whether it succeeded or failed.
C20_DetachedWhenLoadFinishes ==
    [][\A script \in ScriptIds :
         (ScriptLoad(script) \/ ScriptError(script)) => script \notin attached']_vars

\* C20 amended: a successful load and a close leave no injected element
\* attached; a failed load leaves the document as it was, so the element
\* stays attached until the close.
C20_DetachedOnLoadOrClose ==
    [][/\ \A script \in ScriptIds :
            /\ ScriptLoad(script) => attached' = {}
            /\ ScriptError(script) => attached' = attached
       /\ Close => attached' = {}]_vars

C20_Witness == Mode = "Collecting" /\ attached # {} /\ loading = {}

\* C21: in each open cycle exactly one script element is inserted, on
\* entering Collecting, and none is inserted afterwards until the close.
C21_OneInsertionPerCycle ==
    [][/\ (Mode = "Closed" /\ Mode' = "Collecting")
            => Cardinality(attached' \ attached) = 1
       /\ (showForm /\ showForm') => attached' \subseteq attached]_vars

\* C22: while no script load has completed in the open cycle (captchaLoaded
\* is still false) no challenge is rendered, captchaVerified is false so
\* that every submit fails at the verification check, and the mode is not
\* Revealed.
C22_NoLoadNoReveal ==
    (Mode # "Closed" /\ ~captchaLoaded)
        => (~widgetRendered /\ ~captchaVerified /\ Mode # "Revealed")

\* C23: a validation failure does not latch: a submit taken while a message
\* of an earlier failed submit is displayed, with the name and email
\* corrected and captchaVerified true, reaches Revealed with an empty error.
C23_FailureDoesNotLatch ==
    [][(Submit /\ error # "" /\ ValidName(userName)
          /\ HasAddressShape(userEmail) /\ captchaVerified)
         => (Mode' = "Revealed" /\ error' = "")]_vars

C23_Witness ==
    /\ Mode = "Collecting"
    /\ error \in {NameErrorMsg, EmailErrorMsg}
    /\ ValidName(userName) /\ HasAddressShape(userEmail)
    /\ captchaVerified

\* C24: the error is empty or one of the three validation messages, and it
\* is non-empty only in Collecting (empty in every Revealed and Closed state).
C24_ErrorOnlyInCollecting ==
    /\ error \in {"", "Please enter your name",
                  "Please enter a valid email address",
                  "Please complete the reCAPTCHA verification"}
    /\ (error # "" => Mode = "Collecting")

C24_Witness ==
    /\ Mode = "Collecting"
    /\ error = NameErrorMsg
    /\ userName = <<>>

\* C25: the company value never influences a submit: the mode and error a
\* submit produces are those handleSubmit yields for every other company
\* value (including empty) in an otherwise equal state.
C25_CompanyDoesNotInfluenceSubmit ==
    [][Submit
         => \A c \in CompanyInputs :
                LET r == HandleSubmit([UiState EXCEPT !.userCompany = c])
                IN  /\ r.error = error'
                    /\ r.showContact = showContact'
                    /\ r.showForm = showForm']_vars

C25_Witness == Mode = "Revealed" /\ userCompany = <<>>

\* C26: showContact implies showForm, so the contact payload is never
\* flagged as shown while the modal is closed.
C26_ContactImpliesForm == showContact => showForm

C26_Witness == mounted /\ showContact /\ showForm

\* C27: whenever the contact details are shown captchaVerified is true.
C27_RevealedImpliesVerified == showContact => captchaVerified

C27_Witness == showContact /\ captchaVerified /\ verifyPending = 0

\* C28: at most one injected script element is attached at any time, and the
\* element the pending cleanup will remove is exactly the attached one (no
\* element is removed twice).
C28_AtMostOneScriptAttached ==
    /\ Cardinality(attached) <= 1
    /\ attached = (IF effectScript = 0 THEN {} ELSE {effectScript})

C28_Witness == attached # {} /\ (loading \ attached) # {}

\* C29: the draft changes only by an edit in Collecting or by the close; it
\* is empty in every Closed state and keeps its values while the mode stays
\* Revealed.
C29_DraftEditedOnlyInCollecting ==
    [][/\ (Mode' = "Closed")
            => (userName' = <<>> /\ userEmail' = <<>> /\ userCompany' = <<>>)
       /\ (Mode = "Revealed" /\ Mode' = "Revealed") => UNCHANGED draftVars
       /\ (draftVars' # draftVars) => (Mode = "Collecting" \/ Close)]_vars

C29_Witness ==
    /\ Mode = "Revealed"
    /\ ValidName(userName)
    /\ userCompany = <<"x">>

====
